---- MODULE Spec2Model ----
(***************************************************************************)
(* Job orchestration core of fred: the jobs table, the job worker's        *)
(* polling loop (app/workers/job_worker.py: main), the sequential and the  *)
(* parallel pipeline (process_job_sequential, process_job_parallel) and    *)
(* the two subprocess runners (XNemoRunner.generate, SeedVCRunner.convert).*)
(*                                                                         *)
(* Strings are modelled as sequences of tokens, so that joining and        *)
(* containment are computed and not assumed. A nullable column or local is *)
(* a sequence of length at most one: <<>> is None, <<v>> is the value v.   *)
(***************************************************************************)
EXTENDS Integers, Sequences, FiniteSets, TLC

\* ------------------------------------------------------------------------
\* Bounds of the model
\* ------------------------------------------------------------------------
\* jobs submitted in a run with one dispatcher
MaxJobs == 2
\* jobs submitted in a run with two dispatchers
MaxJobsTwoDispatchers == 1
\* jobs submitted in a run in which store operations may fail
MaxJobsStoreFailures == 1
\* jobs submitted in a run in which the dispatcher is scheduled fairly
MaxJobsFair == 1
\* jobs submitted as a backlog in a run in which store operations may fail
MaxJobsBacklog == 2
\* jobs created in a run in which the clients send any request
MaxJobsSubmission == 1
\* jobs enqueued for the dispatcher that is scheduled fairly, when one has to
\* wait behind another
MaxJobsFairBacklog == 2
\* jobs enqueued after the dispatcher was started again
MaxJobsRestart == 1

\* ------------------------------------------------------------------------
\* Program constants
\* ------------------------------------------------------------------------
ProgressCreated == 0
ProgressStarted == 5
ProgressValidated == 10
ProgressXnemoDone == 50
ProgressSeedvcDoneSequential == 85
ProgressSeedvcDoneParallel == 70
ProgressCombinedSequential == 95
ProgressCombiningParallel == 85
ProgressCompleted == 100

\* JobStatus (app/db/models.py)
PENDING == "pending"
PROCESSING == "processing"
COMPLETED == "completed"
FAILED == "failed"
JobStatus == {PENDING, PROCESSING, COMPLETED, FAILED}

\* EXECUTION_MODE
Sequential == "sequential"
Parallel == "parallel"
ExecutionModes == {Sequential, Parallel}

\* The dispatcher processes that may run against the store.
DispatcherIds == {1, 2}
SingleDispatcher == {1}
TwoDispatchers == {1, 2}

None == <<>>
Some(v) == <<v>>

\* ------------------------------------------------------------------------
\* Exception messages (the text of str(e))
\* ------------------------------------------------------------------------
XnemoFailedCode == "X-Nemo failed with code"
XnemoNotFound == "X-Nemo completed but output not found"
XnemoTimedOut == "X-Nemo timed out"
SeedvcFailedCode == "Seed-VC failed with code"
SeedvcNotFound == "Seed-VC completed but output not found"
SeedvcTimedOut == "Seed-VC timed out"
ExtractFailed == "FFmpeg audio extraction failed"
CombineFailed == "FFmpeg combine failed"
VideoNotFound == "User video not found"
ImageNotFound == "Identity image not found"
AudioNotFound == "Identity audio not found"
\* str(e) of the TypeError os.path.exists(None) raises
PathIsNone == "stat: path should be string, bytes, os.PathLike or integer, not NoneType"
ValidationMessages == {VideoNotFound, ImageNotFound, AudioNotFound, PathIsNone}

XnemoMessages == {XnemoFailedCode, XnemoNotFound, XnemoTimedOut}
SeedvcMessages == {SeedvcFailedCode, SeedvcNotFound, SeedvcTimedOut}

\* What one run of a stage subprocess can look like to the runner.
SubprocessRuns ==
    [timed_out : BOOLEAN, returncode : {0, 1},
     marker : {"absent", "success", "failure"}, output_exists : BOOLEAN]

\* What the file system can look like to validate_paths.
\* resolved: the job's identity is in the worker's catalog, so that
\* get_identity_audio_path returns a path and not None.
PathStates ==
    {p \in [video : BOOLEAN, image : BOOLEAN, resolved : BOOLEAN,
            audio : BOOLEAN] : ~p.resolved => ~p.audio}

Return(v) == [ok |-> TRUE, value |-> v]
Raise(m) == [ok |-> FALSE, value |-> m]

\* XNemoRunner.generate with subprocess.TimeoutExpired reported like a
\* non-zero return code
XNemoGenerateExitOnly(run, output_path) ==
    IF run.timed_out \/ run.returncode # 0 THEN Raise(XnemoFailedCode)
    ELSE IF run.marker = "success" THEN Return(output_path)
    ELSE IF run.output_exists THEN Return(output_path)
    ELSE Raise(XnemoNotFound)

\* XNemoRunner.generate reading the result marker before the return code
XNemoGenerateMarkerFirst(run, output_path) ==
    IF run.timed_out THEN Raise(XnemoTimedOut)
    ELSE IF run.marker = "success" THEN Return(output_path)
    ELSE IF run.returncode # 0 THEN Raise(XnemoFailedCode)
    ELSE IF run.output_exists THEN Return(output_path)
    ELSE Raise(XnemoNotFound)

\* XNemoRunner.generate: the outcome of one subprocess run.
XNemoGenerate(run, output_path) ==
    IF run.timed_out THEN Raise(XnemoTimedOut)
    ELSE IF run.returncode # 0 THEN Raise(XnemoFailedCode)
    ELSE IF run.marker = "success" THEN Return(output_path)
    ELSE IF run.output_exists THEN Return(output_path)
    ELSE Raise(XnemoNotFound)

\* SeedVCRunner.convert: the outcome of one subprocess run.
SeedVCConvert(run, output_path) ==
    IF run.timed_out THEN Raise(SeedvcTimedOut)
    ELSE IF run.returncode # 0 THEN Raise(SeedvcFailedCode)
    ELSE IF run.marker = "success" THEN Return(output_path)
    ELSE IF run.output_exists THEN Return(output_path)
    ELSE Raise(SeedvcNotFound)

\* The arguments of a runner method called on its own, with the subprocess
\* run it will see.
RunnerCalls ==
    [runner : {"xnemo", "seedvc"}, run : SubprocessRuns,
     output_path : {<<"temp", "out">>, <<"temp", "other">>}]

NoRunnerCall == [runner |-> "none"]

\* str(e) of what a query or a commit raises when the store fails
StoreError == "OperationalError"

\* Paths are sequences of components; an absolute path starts with "/".
UploadsDir == <<"/", "shared_data", "uploads">>

\* os.path.join(SHARED_DATA_PATH, "uploads", name): an absolute last
\* component discards what precedes it, an empty one leaves the directory
PathJoin(dir, name) ==
    IF Len(name) > 0 /\ name[1] = "/" THEN name ELSE dir \o name

\* a file of the host that nobody uploaded
HostFile == <<"/", "etc", "hostname">>

\* os.path.exists(path), given the names upload_video has written and
\* whether the uploads directory was made: true of files and of directories
PathExists(path, uploaded, made) ==
    \/ path \in {UploadsDir \o name : name \in uploaded}
    \/ path = UploadsDir /\ made
    \/ path = HostFile

\* the names upload_video gives to the files it writes (uuid4 + extension)
UploadNames == {<<"clip.mp4">>}

\* IDENTITIES, as _discover_identities found them
IDENTITIES ==
    [i \in {"persona_a"} |-> [images |-> {"face1.jpg"}, audio |-> "voice.wav"]]

get_identity(identity_id) ==
    IF identity_id \notin DOMAIN IDENTITIES THEN None
    ELSE Some(IDENTITIES[identity_id])

\* the request bodies of POST /api/jobs: three strings
JobCreate ==
    [identity_id : {"persona_a", "persona_x"},
     identity_image : {"face1.jpg", "face9.jpg"},
     user_video : {<<"clip.mp4">>, <<"lost.mp4">>, <<>>, HostFile}]

\* what a client sends that picked an identity, one of its images, and the
\* name upload_video returned
ValidRequest ==
    [identity_id |-> "persona_a", identity_image |-> "face1.jpg",
     user_video |-> <<"clip.mp4">>]

InvalidIdentity == "Invalid identity"
InvalidImage == "Invalid image for identity"
VideoNotUploaded == "Video not found. Upload first."

\* the responses of create_job
NoResponse == [status_code |-> 0, detail |-> ""]
JobResponse == [status_code |-> 200, detail |-> ""]
HTTPException(detail) == [status_code |-> 400, detail |-> detail]

\* What the file system can look like to verify_setup.
SetupStates ==
    [xnemo_script : BOOLEAN, xnemo_weights : BOOLEAN, seedvc_script : BOOLEAN]

\* verify_setup without the check of the Seed-VC runner script
VerifySetupNoSeedvc(fs) == fs.xnemo_script /\ fs.xnemo_weights

\* verify_setup: no error was collected
VerifySetup(fs) == fs.xnemo_script /\ fs.xnemo_weights /\ fs.seedvc_script

\* validate_paths: the first missing path raises.
ValidatePaths(paths) ==
    IF ~paths.video THEN Raise(VideoNotFound)
    ELSE IF ~paths.image THEN Raise(ImageNotFound)
    ELSE IF ~paths.resolved THEN Raise(PathIsNone)
    ELSE IF ~paths.audio THEN Raise(AudioNotFound)
    ELSE Return("")

\* Job-scoped artifact names.
XnemoOutputPath(j) == <<j, "_xnemo.mp4">>
SeedvcOutputPath(j) == <<j, "_converted.wav">>
UserAudioPath(j) == <<j, "_user_audio.wav">>
OutputVideoName(j) == <<j, ".mp4">>

\* ------------------------------------------------------------------------
\* Text
\* ------------------------------------------------------------------------
RECURSIVE Join(_, _)
\* sep.join(texts), texts a sequence of token sequences
Join(sep, texts) ==
    IF Len(texts) = 0 THEN <<>>
    ELSE IF Len(texts) = 1 THEN texts[1]
    ELSE texts[1] \o <<sep>> \o Join(sep, Tail(texts))

\* substring test on token sequences, for one token
Contains(text, token) == \E i \in 1..Len(text) : text[i] = token

\* f"{name}: {str(e)}"
StageError(name, message) == <<name, ": ", message>>

\* only the first error raised
FirstErrorOnly(errs) == errs[1]

\* RuntimeError("; ".join(errors))
JoinErrors(errs) == Join("; ", errs)

\* ------------------------------------------------------------------------
\* State
\* ------------------------------------------------------------------------
VARIABLES
    jobs,           \* the jobs table: job id -> row
    clock,          \* datetime.utcnow() of the submitting process
    mode,           \* EXECUTION_MODE
    workers,        \* the dispatcher processes that are running
    limit,          \* how many jobs the clients submit in this run
    setup,          \* the files verify_setup looks for at startup
    store_faults,   \* whether store operations may raise in this run
    clients,        \* the requests the clients of the API send in this run
    uploads,        \* the file names upload_video has written
    response,       \* the last response of create_job
    call,           \* a runner method called on its own: its arguments
    outcome,        \* what that call returned or raised
    pc,             \* where each dispatcher is in main / process_job
    cur,            \* the job a dispatcher's main loop selected (0: none)
    xnemo_result,   \* local of process_job_*
    seedvc_result,  \* local of process_job_*
    errors,         \* local of process_job_parallel
    exc,            \* the exception caught by process_job_*'s handler, or
                    \* by main's
    futures,        \* the two pool tasks of process_job_parallel
    stages          \* per job: the external invocations made for it

vars == <<jobs, clock, mode, workers, limit, setup, store_faults, clients,
          uploads, response, call, outcome, pc, cur, xnemo_result, seedvc_result, errors,
          exc, futures, stages>>

\* what stays as it is for the whole run
config == <<mode, workers, limit, setup, store_faults, clients>>

\* what only the API process changes
api == <<uploads, response>>

\* what only a runner method called on its own changes
direct == <<call, outcome>>

locals == <<xnemo_result, seedvc_result, errors, exc, futures>>

StageNames == {"xnemo", "seedvc", "extract", "combine"}
NoCall == [calls |-> 0, state |-> "idle", timed_out |-> FALSE,
           exit_nonzero |-> FALSE, written |-> FALSE]
NoFutures == [xnemo |-> "idle", seedvc |-> "idle"]

\* Job(...) as create_job builds it, with the column defaults
NewJob(data, now) ==
    [user_video |-> data.user_video, identity_id |-> data.identity_id,
     identity_image |-> data.identity_image,
     status |-> PENDING, progress |-> ProgressCreated, output_video |-> None,
     error |-> None, created_at |-> now]

JobIds == DOMAIN jobs

\* the query with Failed jobs let through its filter
OldestPendingOrFailed(js) ==
    {j \in DOMAIN js :
        /\ js[j].status \in {PENDING, FAILED}
        /\ \A k \in DOMAIN js :
              js[k].status \in {PENDING, FAILED} =>
                  js[j].created_at <= js[k].created_at}

\* the query with jobs in Processing let through its filter
OldestUnfinished(js) ==
    {j \in DOMAIN js :
        /\ js[j].status \in {PENDING, PROCESSING}
        /\ \A k \in DOMAIN js :
              js[k].status \in {PENDING, PROCESSING} =>
                  js[j].created_at <= js[k].created_at}

\* the query without its order_by
AnyPending(js) == {j \in DOMAIN js : js[j].status = PENDING}

\* db.query(Job).filter(Job.status == PENDING).order_by(Job.created_at).first():
\* the rows the query may return (any of the oldest on a tie of created_at)
OldestPending(js) ==
    {j \in DOMAIN js :
        /\ js[j].status = PENDING
        /\ \A k \in DOMAIN js :
              js[k].status = PENDING => js[j].created_at <= js[k].created_at}

\* the first commit without the status assignment
StartWriteProgressOnly(job) == [job EXCEPT !.progress = ProgressStarted]

\* job.status = PROCESSING; job.progress = 5; db.commit()
StartWrite(job) ==
    [job EXCEPT !.status = PROCESSING, !.progress = ProgressStarted]

\* update_progress that inserts the row it does not find
UpdateProgressUpsert(js, id, progress) ==
    IF id \in DOMAIN js THEN [js EXCEPT ![id].progress = progress]
    ELSE js @@ (id :> [status |-> PROCESSING, progress |-> progress])

\* update_progress that also stamps the row, as if created_at were
\* refreshed on update
UpdateProgressStamped(js, id, progress) ==
    IF id \in DOMAIN js
    THEN [js EXCEPT ![id].progress = progress, ![id].created_at = @ + 1]
    ELSE js

\* update_progress without its commit
UpdateProgressLost(js, id, progress) == js

\* update_progress(job_id, progress): no-op when the row is gone
UpdateProgress(js, id, progress) ==
    IF id \in DOMAIN js THEN [js EXCEPT ![id].progress = progress] ELSE js

\* the final commit without the output_video assignment
CompletedWriteNoOutput(job, id) ==
    [job EXCEPT !.status = COMPLETED, !.progress = ProgressCompleted]

\* the final commit without the progress assignment
CompletedWriteNoProgress(job, id) ==
    [job EXCEPT !.output_video = Some(OutputVideoName(id)), !.status = COMPLETED]

\* job.output_video = f"{job_id}.mp4"; status = COMPLETED; progress = 100
CompletedWrite(job, id) ==
    [job EXCEPT !.output_video = Some(OutputVideoName(id)),
                !.status = COMPLETED, !.progress = ProgressCompleted]

\* the handler without the error assignment
FailedWriteNoError(job, e) == [job EXCEPT !.status = FAILED]

\* job.status = FAILED; job.error = str(e)
FailedWrite(job, e) ==
    [job EXCEPT !.status = FAILED, !.error = Some(e)]

\* the invocation of an external process for job j begins / ends
Invoke(st, j, name) ==
    [st EXCEPT ![j][name].calls = @ + 1, ![j][name].state = "running"]
\* written: the invocation has handed back its artifact, which from then on
\* counts as a file of the job
Finish(st, j, name, result) ==
    [st EXCEPT ![j][name].state = IF result.ok THEN "ok" ELSE result.value,
               ![j][name].written = @ \/ result.ok]

\* whether subprocess.run raised TimeoutExpired in the invocation for job j
\* and whether the process exited, within the timeout, with a code other
\* than 0
RecordRun(st, j, name, run) ==
    [st EXCEPT ![j][name].timed_out = run.timed_out,
               ![j][name].exit_nonzero = ~run.timed_out /\ run.returncode # 0]

\* the return code ffmpeg ended with
RecordExit(st, j, name, returncode) ==
    [st EXCEPT ![j][name].exit_nonzero = returncode # 0]

\* cleanup_temp deleting the job's files under shared_data/temp
CleanupTempRemoves(st, j) ==
    [st EXCEPT ![j] = [n \in DOMAIN @ |-> [@[n] EXCEPT !.written = FALSE]]]

\* cleanup_temp: a no-op, the temp files are kept for debugging
CleanupTemp(st, j) == st

\* run_xnemo_task called again after it raised
AfterXnemoRetry(result) == IF result.ok THEN "seedvc_task" ELSE "run_xnemo"

\* run_xnemo_task's exception swallowed
AfterXnemoAlwaysSeedvc(result) == "seedvc_task"

\* where process_job_sequential goes after run_xnemo_task
AfterXnemoSequential(result) == IF result.ok THEN "seedvc_task" ELSE "handler"

\* whether a query or a commit goes through (TRUE) or raises (FALSE)
StoreOutcomes == IF store_faults THEN BOOLEAN ELSE {TRUE}

\* the processes before main starts, for a run with the dispatchers ws, n
\* jobs to submit, store operations that may fail or not, and clients that
\* send the requests reqs
InitProcesses(ws, n, faults, reqs) ==
    /\ clock = 0
    /\ mode \in ExecutionModes
    /\ workers = ws
    /\ limit = n
    /\ setup \in SetupStates
    /\ store_faults = faults
    /\ clients = reqs
    /\ uploads = {}
    /\ response = NoResponse
    /\ outcome = None
    /\ pc = [w \in DispatcherIds |-> "startup"]
    /\ cur = [w \in DispatcherIds |-> 0]
    /\ xnemo_result = [w \in DispatcherIds |-> None]
    /\ seedvc_result = [w \in DispatcherIds |-> None]
    /\ errors = [w \in DispatcherIds |-> <<>>]
    /\ exc = [w \in DispatcherIds |-> None]
    /\ futures = [w \in DispatcherIds |-> NoFutures]

\* the state before main starts: an empty store
InitWith(ws, n, faults, reqs) ==
    /\ jobs = <<>>
    /\ stages = <<>>
    /\ call = NoRunnerCall
    /\ InitProcesses(ws, n, faults, reqs)

Init == InitWith(SingleDispatcher, MaxJobs, FALSE, {ValidRequest})

InitTwoDispatchers ==
    InitWith(TwoDispatchers, MaxJobsTwoDispatchers, FALSE, {ValidRequest})

InitStoreFailures ==
    InitWith(SingleDispatcher, MaxJobsStoreFailures, TRUE, {ValidRequest})

InitStoreFailuresBacklog ==
    InitWith(SingleDispatcher, MaxJobsBacklog, TRUE, {ValidRequest})

InitFair == InitWith(SingleDispatcher, MaxJobsFair, FALSE, {ValidRequest})

InitFairBacklog ==
    InitWith(SingleDispatcher, MaxJobsFairBacklog, FALSE, {ValidRequest})

InitSubmission ==
    InitWith(SingleDispatcher, MaxJobsSubmission, FALSE, JobCreate)

\* the row a dispatcher process leaves behind when it is stopped between
\* the first commit of process_job_* and the final one
OrphanRows ==
    {[NewJob(ValidRequest, 0) EXCEPT !.status = PROCESSING, !.progress = p] :
        p \in {ProgressStarted, ProgressValidated, ProgressXnemoDone,
               ProgressSeedvcDoneParallel, ProgressSeedvcDoneSequential,
               ProgressCombinedSequential}}

\* the state before main starts, in a process started after an earlier one
\* was stopped mid-job: the store holds that job; nothing has been invoked
\* by this process
InitRestart ==
    /\ \E row \in OrphanRows : jobs = <<row>>
    /\ stages = <<[n \in StageNames |-> NoCall]>>
    /\ call = NoRunnerCall
    /\ InitProcesses(SingleDispatcher, 1 + MaxJobsRestart, FALSE,
                     {ValidRequest})

\* ------------------------------------------------------------------------
\* Submission (app/api/routes.py: upload_video, create_job)
\* ------------------------------------------------------------------------
JobLimit == limit

\* os.makedirs of the uploads directory: by upload_video, and by verify_setup
\* of a dispatcher
UploadsDirMade == uploads # {} \/ \E w \in workers : pc[w] # "startup"

\* upload_video: the file is written to the uploads directory under a new
\* name
UploadVideo ==
    /\ \E filename \in UploadNames \ uploads :
          uploads' = uploads \cup {filename}
    /\ UNCHANGED <<jobs, clock, config, direct, response, pc, cur, locals, stages>>

\* create_job: the three checks, then the insert
CreateJob ==
    /\ Cardinality(JobIds) < JobLimit
    /\ \E data \in clients : \E now \in {clock, clock + 1} :
          LET identity == get_identity(data.identity_id)
              video_path == PathJoin(UploadsDir, data.user_video)
              id == Cardinality(JobIds) + 1 IN
          IF identity = None
          THEN /\ response' = HTTPException(InvalidIdentity)
               /\ UNCHANGED <<jobs, stages, clock>>
          ELSE IF data.identity_image \notin identity[1].images
          THEN /\ response' = HTTPException(InvalidImage)
               /\ UNCHANGED <<jobs, stages, clock>>
          ELSE IF ~PathExists(video_path, uploads, UploadsDirMade)
          THEN /\ response' = HTTPException(VideoNotUploaded)
               /\ UNCHANGED <<jobs, stages, clock>>
          ELSE /\ jobs' = jobs @@ (id :> NewJob(data, now))
               /\ stages' = stages @@ (id :> [n \in StageNames |-> NoCall])
               /\ clock' = now
               /\ response' = JobResponse
    /\ UNCHANGED <<config, direct, uploads, pc, cur, locals>>

\* ------------------------------------------------------------------------
\* main: the polling loop
\* ------------------------------------------------------------------------
\* main up to the loop: verify_setup() or sys.exit(1)
Startup(w) ==
    /\ pc[w] = "startup"
    /\ pc' = [pc EXCEPT ![w] =
                 IF VerifySetup(setup) THEN "poll" ELSE "setup_failed"]
    /\ UNCHANGED <<jobs, clock, config, direct, api, cur, locals, stages>>

\* the query finds a Pending job: process_job(job) is entered
PollJob(w) ==
    /\ pc[w] = "poll"
    /\ \E j \in OldestPending(jobs) :
          /\ cur' = [cur EXCEPT ![w] = j]
          /\ pc' = [pc EXCEPT ![w] = "start"]
    /\ UNCHANGED <<jobs, clock, config, direct, api, locals, stages>>

\* the query finds nothing, or it raises and main logs the error: either
\* way time.sleep(POLL_INTERVAL)
PollIdle(w) ==
    /\ pc[w] = "poll"
    /\ \E stored \in StoreOutcomes :
          IF stored
          THEN OldestPending(jobs) = {} /\ exc' = exc
          ELSE exc' = [exc EXCEPT ![w] = Some(<<StoreError>>)]
    /\ pc' = [pc EXCEPT ![w] = "sleep"]
    /\ UNCHANGED <<jobs, clock, config, direct, api, cur, xnemo_result,
                   seedvc_result, errors, futures, stages>>

\* the sleep is over, and the loop goes round
Wake(w) ==
    /\ pc[w] = "sleep"
    /\ pc' = [pc EXCEPT ![w] = "poll"]
    /\ exc' = [exc EXCEPT ![w] = None]
    /\ UNCHANGED <<jobs, clock, config, direct, api, cur, xnemo_result,
                   seedvc_result, errors, futures, stages>>

\* ------------------------------------------------------------------------
\* process_job_sequential / process_job_parallel: the common head and tail
\* ------------------------------------------------------------------------
\* the first commit of the try block
StartJob(w) ==
    /\ pc[w] = "start"
    /\ xnemo_result' = [xnemo_result EXCEPT ![w] = None]
    /\ seedvc_result' = [seedvc_result EXCEPT ![w] = None]
    /\ errors' = [errors EXCEPT ![w] = <<>>]
    /\ \E stored \in StoreOutcomes :
          IF stored
          THEN /\ jobs' = [jobs EXCEPT ![cur[w]] = StartWrite(@)]
               /\ exc' = [exc EXCEPT ![w] = None]
               /\ pc' = [pc EXCEPT ![w] = "validate"]
          ELSE /\ jobs' = jobs
               /\ exc' = [exc EXCEPT ![w] = Some(<<StoreError>>)]
               /\ pc' = [pc EXCEPT ![w] = "handler"]
    /\ UNCHANGED <<clock, config, direct, api, cur, futures, stages>>

\* validate_paths returning a verdict that nobody reads
ValidationErrorIgnored == "run_xnemo"

\* an exception raised inside the try block of process_job_*
AfterValidationError == "handler"

\* validate_paths, then update_progress(job.id, 10)
Validate(w) ==
    /\ pc[w] = "validate"
    /\ \E paths \in PathStates : \E stored \in StoreOutcomes :
          LET r == ValidatePaths(paths) IN
          IF r.ok /\ stored
          THEN /\ jobs' = UpdateProgress(jobs, cur[w], ProgressValidated)
               /\ pc' = [pc EXCEPT ![w] =
                            IF mode = Parallel THEN "submit" ELSE "run_xnemo"]
               /\ exc' = exc
          ELSE /\ exc' = [exc EXCEPT ![w] =
                             Some(<<IF r.ok THEN StoreError ELSE r.value>>)]
               /\ pc' = [pc EXCEPT ![w] =
                            IF r.ok THEN "handler" ELSE AfterValidationError]
               /\ jobs' = jobs
    /\ UNCHANGED <<clock, config, direct, api, cur, xnemo_result, seedvc_result,
                   errors, futures, stages>>

\* main without its loop: one job, and the process ends
AfterProcessJobExit == "exited"

\* main sleeping after every job
AfterProcessJobSleep == "sleep"

\* main, after process_job(job) has returned: round the loop, to the query
AfterProcessJob == "poll"

\* the final commit of the try block and cleanup_temp; process_job returns
\* to main
Complete(w) ==
    /\ pc[w] = "complete"
    /\ \E stored \in StoreOutcomes :
          IF stored
          THEN /\ jobs' = [jobs EXCEPT ![cur[w]] = CompletedWrite(@, cur[w])]
               /\ pc' = [pc EXCEPT ![w] = AfterProcessJob]
               /\ cur' = [cur EXCEPT ![w] = 0]
               /\ xnemo_result' = [xnemo_result EXCEPT ![w] = None]
               /\ seedvc_result' = [seedvc_result EXCEPT ![w] = None]
               /\ errors' = [errors EXCEPT ![w] = <<>>]
               /\ exc' = [exc EXCEPT ![w] = None]
               /\ stages' = CleanupTemp(stages, cur[w])
          ELSE /\ exc' = [exc EXCEPT ![w] = Some(<<StoreError>>)]
               /\ pc' = [pc EXCEPT ![w] = "handler"]
               /\ UNCHANGED <<jobs, cur, xnemo_result, seedvc_result, errors,
                              stages>>
    /\ UNCHANGED <<clock, config, direct, api, futures>>

\* main without its except clause: the exception ends the loop
WorkerErrorEndsLoop == "exited"

\* main, except Exception as e: log the error, time.sleep(POLL_INTERVAL), and
\* go round the loop again
AfterWorkerError == "sleep"

\* except Exception as e: mark the job failed; process_job returns to main.
\* A query or commit that raises here leaves process_job as an exception.
Handler(w) ==
    /\ pc[w] = "handler"
    /\ \E stored \in StoreOutcomes :
          IF stored
          THEN /\ jobs' = [jobs EXCEPT ![cur[w]] = FailedWrite(@, exc[w][1])]
               /\ pc' = [pc EXCEPT ![w] = AfterProcessJob]
               /\ exc' = [exc EXCEPT ![w] = None]
          ELSE /\ jobs' = jobs
               /\ pc' = [pc EXCEPT ![w] = AfterWorkerError]
               /\ exc' = [exc EXCEPT ![w] = Some(<<StoreError>>)]
    /\ cur' = [cur EXCEPT ![w] = 0]
    /\ xnemo_result' = [xnemo_result EXCEPT ![w] = None]
    /\ seedvc_result' = [seedvc_result EXCEPT ![w] = None]
    /\ errors' = [errors EXCEPT ![w] = <<>>]
    /\ UNCHANGED <<clock, config, direct, api, futures, stages>>

\* What subprocess.run(cmd, capture_output=True, text=True) of ffmpeg can do:
\* return with a return code, or, with no timeout given, never return.
FfmpegRuns == [returns : BOOLEAN, returncode : {0, 1}]

\* combine_video_audio raising what a failed Seed-VC run raises
CombineVideoAudioAsStage(returncode, j) ==
    IF returncode = 0 THEN Return(OutputVideoName(j))
    ELSE Raise(SeedvcFailedCode)

\* combine_video_audio: the ffmpeg run, by its return code
CombineVideoAudio(returncode, j) ==
    IF returncode = 0 THEN Return(OutputVideoName(j)) ELSE Raise(CombineFailed)

\* extract_audio without the test of ffmpeg's return code
ExtractAudioUnchecked(returncode) == Return("")

\* extract_audio: the ffmpeg run, by its return code
ExtractAudio(returncode) ==
    IF returncode = 0 THEN Return("") ELSE Raise(ExtractFailed)

\* ------------------------------------------------------------------------
\* process_job_sequential
\* ------------------------------------------------------------------------
\* run_xnemo_task: runner.generate starts the subprocess (the runner script
\* that verify_setup found at startup is still in place)
SeqInvokeXnemo(w) ==
    /\ pc[w] = "run_xnemo"
    /\ stages' = Invoke(stages, cur[w], "xnemo")
    /\ pc' = [pc EXCEPT ![w] = "xnemo_running"]
    /\ UNCHANGED <<jobs, clock, config, direct, api, cur, locals>>

\* runner.generate returns or raises; on return update_progress(job.id, 50)
SeqXnemoReturn(w) ==
    /\ pc[w] = "xnemo_running"
    /\ \E run \in SubprocessRuns :
          LET r == XNemoGenerate(run, XnemoOutputPath(cur[w])) IN
          /\ stages' = RecordRun(Finish(stages, cur[w], "xnemo", r),
                                 cur[w], "xnemo", run)
          /\ IF r.ok
             THEN /\ xnemo_result' = [xnemo_result EXCEPT ![w] = Some(r.value)]
                  /\ \E stored \in StoreOutcomes :
                        IF stored
                        THEN /\ jobs' = UpdateProgress(jobs, cur[w],
                                                       ProgressXnemoDone)
                             /\ pc' = [pc EXCEPT ![w] = AfterXnemoSequential(r)]
                             /\ exc' = exc
                        ELSE /\ jobs' = jobs
                             /\ pc' = [pc EXCEPT ![w] = "handler"]
                             /\ exc' = [exc EXCEPT ![w] = Some(<<StoreError>>)]
             ELSE /\ exc' = [exc EXCEPT ![w] = Some(<<r.value>>)]
                  /\ pc' = [pc EXCEPT ![w] = AfterXnemoSequential(r)]
                  /\ UNCHANGED <<xnemo_result, jobs>>
    /\ UNCHANGED <<clock, config, direct, api, cur, seedvc_result, errors, futures>>

\* run_seedvc_task: extract_audio, then runner.convert starts the subprocess
SeqExtractAudio(w) ==
    /\ pc[w] = "seedvc_task"
    /\ \E run \in FfmpegRuns :
          LET r == ExtractAudio(run.returncode)
              extracted == RecordExit(
                               Finish(Invoke(stages, cur[w], "extract"),
                                      cur[w], "extract", r),
                               cur[w], "extract", run.returncode) IN
          IF ~run.returns
          THEN /\ stages' = Invoke(stages, cur[w], "extract")
               /\ pc' = [pc EXCEPT ![w] = "blocked"]
               /\ exc' = exc
          ELSE IF r.ok
          THEN /\ stages' = Invoke(extracted, cur[w], "seedvc")
               /\ pc' = [pc EXCEPT ![w] = "seedvc_running"]
               /\ exc' = exc
          ELSE /\ stages' = extracted
               /\ exc' = [exc EXCEPT ![w] = Some(<<r.value>>)]
               /\ pc' = [pc EXCEPT ![w] = "handler"]
    /\ UNCHANGED <<jobs, clock, config, direct, api, cur, xnemo_result,
                   seedvc_result, errors, futures>>

\* runner.convert returns or raises; on return update_progress(job.id, 85)
SeqSeedvcReturn(w) ==
    /\ pc[w] = "seedvc_running"
    /\ \E run \in SubprocessRuns :
          LET r == SeedVCConvert(run, SeedvcOutputPath(cur[w])) IN
          /\ stages' = RecordRun(Finish(stages, cur[w], "seedvc", r),
                                 cur[w], "seedvc", run)
          /\ IF r.ok
             THEN /\ seedvc_result' = [seedvc_result EXCEPT ![w] = Some(r.value)]
                  /\ \E stored \in StoreOutcomes :
                        IF stored
                        THEN /\ jobs' = UpdateProgress(jobs, cur[w],
                                             ProgressSeedvcDoneSequential)
                             /\ pc' = [pc EXCEPT ![w] = "combine"]
                             /\ exc' = exc
                        ELSE /\ jobs' = jobs
                             /\ pc' = [pc EXCEPT ![w] = "handler"]
                             /\ exc' = [exc EXCEPT ![w] = Some(<<StoreError>>)]
             ELSE /\ exc' = [exc EXCEPT ![w] = Some(<<r.value>>)]
                  /\ pc' = [pc EXCEPT ![w] = "handler"]
                  /\ UNCHANGED <<seedvc_result, jobs>>
    /\ UNCHANGED <<clock, config, direct, api, cur, xnemo_result, errors, futures>>

\* combine_video_audio, then update_progress(job.id, 95)
SeqCombine(w) ==
    /\ pc[w] = "combine"
    /\ \E run \in FfmpegRuns : \E stored \in StoreOutcomes :
          LET r == CombineVideoAudio(run.returncode, cur[w]) IN
          IF ~run.returns
          THEN /\ stages' = Invoke(stages, cur[w], "combine")
               /\ pc' = [pc EXCEPT ![w] = "blocked"]
               /\ UNCHANGED <<jobs, exc>>
          ELSE
          /\ stages' = Finish(Invoke(stages, cur[w], "combine"),
                              cur[w], "combine", r)
          /\ IF r.ok /\ stored
             THEN /\ jobs' = UpdateProgress(jobs, cur[w],
                                            ProgressCombinedSequential)
                  /\ pc' = [pc EXCEPT ![w] = "complete"]
                  /\ exc' = exc
             ELSE /\ exc' = [exc EXCEPT ![w] =
                                Some(<<IF r.ok THEN StoreError ELSE r.value>>)]
                  /\ pc' = [pc EXCEPT ![w] = "handler"]
                  /\ jobs' = jobs
    /\ UNCHANGED <<clock, config, direct, api, cur, xnemo_result, seedvc_result,
                   errors, futures>>

\* ------------------------------------------------------------------------
\* process_job_parallel
\* ------------------------------------------------------------------------
\* executor.submit of both tasks to the pool of two threads: the xnemo task
\* starts its subprocess, the seedvc task starts with extract_audio
ParSubmit(w) ==
    /\ pc[w] = "submit"
    /\ futures' = [futures EXCEPT ![w] =
                      [xnemo |-> "running", seedvc |-> "extracting"]]
    /\ stages' = Invoke(stages, cur[w], "xnemo")
    /\ pc' = [pc EXCEPT ![w] = "as_completed"]
    /\ UNCHANGED <<jobs, clock, config, direct, api, cur, xnemo_result,
                   seedvc_result, errors, exc>>

\* the seedvc task: extract_audio, then runner.convert starts the subprocess;
\* a failed extraction ends the task, and the loop appends its error
ParExtractAudio(w) ==
    /\ pc[w] = "as_completed"
    /\ futures[w].seedvc = "extracting"
    /\ \E run \in FfmpegRuns :
          LET r == ExtractAudio(run.returncode)
              extracted == RecordExit(
                               Finish(Invoke(stages, cur[w], "extract"),
                                      cur[w], "extract", r),
                               cur[w], "extract", run.returncode) IN
          IF ~run.returns
          THEN /\ stages' = Invoke(stages, cur[w], "extract")
               /\ futures' = [futures EXCEPT ![w].seedvc = "blocked"]
               /\ errors' = errors
          ELSE IF r.ok
          THEN /\ stages' = Invoke(extracted, cur[w], "seedvc")
               /\ futures' = [futures EXCEPT ![w].seedvc = "running"]
               /\ errors' = errors
          ELSE /\ stages' = extracted
               /\ futures' = [futures EXCEPT ![w].seedvc = "done"]
               /\ errors' = [errors EXCEPT ![w] =
                                Append(@, StageError("seedvc", r.value))]
    /\ UNCHANGED <<jobs, clock, config, direct, api, pc, cur, xnemo_result,
                   seedvc_result, exc>>

\* as_completed yields the xnemo future
ParXnemoDone(w) ==
    /\ pc[w] = "as_completed"
    /\ futures[w].xnemo = "running"
    /\ \E run \in SubprocessRuns :
          LET r == XNemoGenerate(run, XnemoOutputPath(cur[w])) IN
          /\ stages' = RecordRun(Finish(stages, cur[w], "xnemo", r),
                                 cur[w], "xnemo", run)
          /\ futures' = [futures EXCEPT ![w].xnemo = "done"]
          /\ IF r.ok
             THEN /\ xnemo_result' = [xnemo_result EXCEPT ![w] = Some(r.value)]
                  /\ \E stored \in StoreOutcomes :
                        IF stored
                        THEN /\ jobs' = UpdateProgress(jobs, cur[w],
                                                       ProgressXnemoDone)
                             /\ errors' = errors
                        ELSE /\ jobs' = jobs
                             /\ errors' = [errors EXCEPT ![w] =
                                   Append(@, StageError("xnemo", StoreError))]
             ELSE /\ errors' = [errors EXCEPT ![w] =
                                   Append(@, StageError("xnemo", r.value))]
                  /\ UNCHANGED <<xnemo_result, jobs>>
    /\ UNCHANGED <<clock, config, direct, api, pc, cur, seedvc_result, exc>>

\* as_completed yields the seedvc future
ParSeedvcDone(w) ==
    /\ pc[w] = "as_completed"
    /\ futures[w].seedvc = "running"
    /\ \E run \in SubprocessRuns :
          LET r == SeedVCConvert(run, SeedvcOutputPath(cur[w])) IN
          /\ stages' = RecordRun(Finish(stages, cur[w], "seedvc", r),
                                 cur[w], "seedvc", run)
          /\ futures' = [futures EXCEPT ![w].seedvc = "done"]
          /\ IF r.ok
             THEN /\ seedvc_result' = [seedvc_result EXCEPT ![w] = Some(r.value)]
                  /\ \E stored \in StoreOutcomes :
                        IF stored
                        THEN /\ jobs' = UpdateProgress(jobs, cur[w],
                                             ProgressSeedvcDoneParallel)
                             /\ errors' = errors
                        ELSE /\ jobs' = jobs
                             /\ errors' = [errors EXCEPT ![w] =
                                   Append(@, StageError("seedvc", StoreError))]
             ELSE /\ errors' = [errors EXCEPT ![w] =
                                   Append(@, StageError("seedvc", r.value))]
                  /\ UNCHANGED <<seedvc_result, jobs>>
    /\ UNCHANGED <<clock, config, direct, api, pc, cur, xnemo_result, exc>>

\* the loop left at the first completed future
AnyDone(f) == f.xnemo = "done" \/ f.seedvc = "done"

\* for future in as_completed(futures) has yielded every future, and the
\* with block has shut the pool down
AllDone(f) == f = [xnemo |-> "done", seedvc |-> "done"]

\* the pool is left: if errors: raise; else update_progress(job.id, 85)
ParJoin(w) ==
    /\ pc[w] = "as_completed"
    /\ AllDone(futures[w])
    /\ futures' = [futures EXCEPT ![w] = NoFutures]
    /\ IF errors[w] # <<>>
       THEN /\ exc' = [exc EXCEPT ![w] = Some(JoinErrors(errors[w]))]
            /\ pc' = [pc EXCEPT ![w] = "handler"]
            /\ jobs' = jobs
       ELSE \E stored \in StoreOutcomes :
               IF stored
               THEN /\ jobs' = UpdateProgress(jobs, cur[w],
                                              ProgressCombiningParallel)
                    /\ pc' = [pc EXCEPT ![w] = "par_combine"]
                    /\ exc' = exc
               ELSE /\ jobs' = jobs
                    /\ pc' = [pc EXCEPT ![w] = "handler"]
                    /\ exc' = [exc EXCEPT ![w] = Some(<<StoreError>>)]
    /\ UNCHANGED <<clock, config, direct, api, cur, xnemo_result, seedvc_result,
                   errors, stages>>

\* combine_video_audio
ParCombine(w) ==
    /\ pc[w] = "par_combine"
    /\ \E run \in FfmpegRuns :
          LET r == CombineVideoAudio(run.returncode, cur[w]) IN
          IF ~run.returns
          THEN /\ stages' = Invoke(stages, cur[w], "combine")
               /\ pc' = [pc EXCEPT ![w] = "blocked"]
               /\ exc' = exc
          ELSE
          /\ stages' = Finish(Invoke(stages, cur[w], "combine"),
                              cur[w], "combine", r)
          /\ IF r.ok
             THEN /\ pc' = [pc EXCEPT ![w] = "complete"]
                  /\ exc' = exc
             ELSE /\ exc' = [exc EXCEPT ![w] = Some(<<r.value>>)]
                  /\ pc' = [pc EXCEPT ![w] = "handler"]
    /\ UNCHANGED <<jobs, clock, config, direct, api, cur, xnemo_result,
                   seedvc_result, errors, futures>>

\* ------------------------------------------------------------------------
\* Specifications
\* ------------------------------------------------------------------------
Next ==
    \/ UploadVideo
    \/ CreateJob
    \/ \E w \in workers : Startup(w)
    \/ \E w \in workers : PollJob(w)
    \/ \E w \in workers : PollIdle(w)
    \/ \E w \in workers : Wake(w)
    \/ \E w \in workers : StartJob(w)
    \/ \E w \in workers : Validate(w)
    \/ \E w \in workers : SeqInvokeXnemo(w)
    \/ \E w \in workers : SeqXnemoReturn(w)
    \/ \E w \in workers : SeqExtractAudio(w)
    \/ \E w \in workers : SeqSeedvcReturn(w)
    \/ \E w \in workers : SeqCombine(w)
    \/ \E w \in workers : ParSubmit(w)
    \/ \E w \in workers : ParExtractAudio(w)
    \/ \E w \in workers : ParXnemoDone(w)
    \/ \E w \in workers : ParSeedvcDone(w)
    \/ \E w \in workers : ParJoin(w)
    \/ \E w \in workers : ParCombine(w)
    \/ \E w \in workers : Complete(w)
    \/ \E w \in workers : Handler(w)

\* one dispatcher process, as the worker is deployed
Spec == Init /\ [][Next]_vars

\* two dispatcher processes against the same store
SpecTwoDispatchers == InitTwoDispatchers /\ [][Next]_vars

\* one dispatcher process, a store whose operations may fail, and more than
\* one job to work through
SpecStoreFailuresBacklog == InitStoreFailuresBacklog /\ [][Next]_vars

\* a step of the dispatcher process w
DispatcherStep(w) ==
    \/ Startup(w) \/ PollJob(w) \/ PollIdle(w) \/ Wake(w)
    \/ StartJob(w) \/ Validate(w)
    \/ SeqInvokeXnemo(w) \/ SeqXnemoReturn(w) \/ SeqExtractAudio(w)
    \/ SeqSeedvcReturn(w) \/ SeqCombine(w)
    \/ ParSubmit(w) \/ ParExtractAudio(w) \/ ParXnemoDone(w)
    \/ ParSeedvcDone(w) \/ ParJoin(w) \/ ParCombine(w)
    \/ Complete(w) \/ Handler(w)

\* one dispatcher process that the operating system keeps scheduling: it
\* takes its next step whenever it has one
SpecFair ==
    InitFair /\ [][Next]_vars
        /\ \A w \in SingleDispatcher : WF_vars(DispatcherStep(w))

\* the same, with more than one job to work through
SpecFairBacklog ==
    InitFairBacklog /\ [][Next]_vars
        /\ \A w \in SingleDispatcher : WF_vars(DispatcherStep(w))

\* one dispatcher process, and clients that send any request
SpecSubmission == InitSubmission /\ [][Next]_vars

\* one dispatcher process, started with a job in Processing in the store
SpecRestart == InitRestart /\ [][Next]_vars

\* one dispatcher process, and a store whose operations may fail
SpecStoreFailures == InitStoreFailures /\ [][Next]_vars

\* ------------------------------------------------------------------------
\* The runners on their own
\* ------------------------------------------------------------------------
InitRunners ==
    /\ InitWith({}, 0, FALSE, {})
    /\ mode = Sequential
    /\ VerifySetup(setup)

\* some caller builds a runner and is about to call its method
PrepareCall ==
    /\ outcome = None
    /\ call = NoRunnerCall
    /\ call' \in RunnerCalls
    /\ UNCHANGED <<jobs, clock, config, api, outcome, pc, cur, locals, stages>>

\* XNemoRunner().generate(..., output_path)
CallGenerate ==
    /\ call # NoRunnerCall
    /\ call.runner = "xnemo"
    /\ outcome = None
    /\ outcome' = Some(XNemoGenerate(call.run, call.output_path))
    /\ UNCHANGED <<jobs, clock, config, api, call, pc, cur, locals, stages>>

\* SeedVCRunner().convert(..., output_path)
CallConvert ==
    /\ call # NoRunnerCall
    /\ call.runner = "seedvc"
    /\ outcome = None
    /\ outcome' = Some(SeedVCConvert(call.run, call.output_path))
    /\ UNCHANGED <<jobs, clock, config, api, call, pc, cur, locals, stages>>

\* ------------------------------------------------------------------------
\* update_progress on its own
\* ------------------------------------------------------------------------
\* the ids update_progress is called with, and the rows that may be there
ProgressCallIds == {1, 2, 3}
StoredIds == {1, 2}

\* the arguments of update_progress
ProgressCalls ==
    [job_id : ProgressCallIds,
     progress : {ProgressValidated, ProgressXnemoDone,
                 ProgressSeedvcDoneSequential}]

\* rows as create_job and the first commit of process_job leave them
StoredRows == {NewJob(ValidRequest, 0), StartWrite(NewJob(ValidRequest, 0))}

\* a store from which any of the rows may have been deleted, and a call of
\* update_progress about to be made
InitUpdateProgress ==
    /\ InitProcesses({}, 0, FALSE, {})
    /\ mode = Sequential
    /\ VerifySetup(setup)
    /\ \E present \in SUBSET StoredIds :
          /\ jobs \in [present -> StoredRows]
          /\ stages = [j \in present |-> [n \in StageNames |-> NoCall]]
    /\ call \in ProgressCalls

\* update_progress(job_id, progress) returns
CallUpdateProgress ==
    /\ outcome = None
    /\ jobs' = UpdateProgress(jobs, call.job_id, call.progress)
    /\ outcome' = Some(Return(None))
    /\ UNCHANGED <<clock, config, api, call, pc, cur, locals, stages>>

NextUpdateProgress == CallUpdateProgress

SpecUpdateProgress == InitUpdateProgress /\ [][NextUpdateProgress]_vars

NextRunners == PrepareCall \/ CallGenerate \/ CallConvert

SpecRunners == InitRunners /\ [][NextRunners]_vars

\* ------------------------------------------------------------------------
\* Properties
\* ------------------------------------------------------------------------
\* a dispatcher is inside process_job, past its first commit
InProcess(w) ==
    pc[w] \notin {"startup", "setup_failed", "exited", "poll", "sleep", "start"}

\* no dispatcher is working on job j
Released(j) == \A w \in workers : cur[w] # j

XnemoFailed(j) == stages[j].xnemo.state \in XnemoMessages
SeedvcFailed(j) ==
    \/ stages[j].seedvc.state \in SeedvcMessages
    \/ stages[j].extract.state = ExtractFailed

\* C1: with two dispatchers, no two of them are ever processing the same
\* job: once one has selected a job and moved it to Processing, no other
\* dispatcher processes that job id.
C1_NoDoubleDispatch ==
    \A w1 \in workers : \A w2 \in workers :
        (w1 # w2 /\ InProcess(w1) /\ InProcess(w2)) => cur[w1] # cur[w2]

\* C2: in both modes and for every completion order, no write ever lowers
\* the persisted progress of a job.
C2_ProgressNeverDecreases ==
    [][\A j \in DOMAIN jobs : jobs'[j].progress >= jobs[j].progress]_vars

\* C3: Completed implies output_video set and error absent; Failed implies
\* error set and output_video absent; Pending or Processing implies both
\* absent.
C3_OutputXorError ==
    \A j \in JobIds :
        /\ jobs[j].status = COMPLETED =>
              jobs[j].output_video # None /\ jobs[j].error = None
        /\ jobs[j].status = FAILED =>
              jobs[j].error # None /\ jobs[j].output_video = None
        /\ jobs[j].status \in {PENDING, PROCESSING} =>
              jobs[j].output_video = None /\ jobs[j].error = None

C3_Witness ==
    \E j \in JobIds : \E k \in JobIds :
        /\ jobs[j].status = COMPLETED /\ jobs[j].output_video # None
        /\ jobs[k].status = FAILED /\ jobs[k].error # None

\* C4: a job has progress 100 if and only if its status is Completed.
C4_HundredIffCompleted ==
    \A j \in JobIds :
        jobs[j].progress = ProgressCompleted <=> jobs[j].status = COMPLETED

C4_Witness ==
    \E j \in JobIds : \E k \in JobIds :
        /\ jobs[j].status = COMPLETED /\ jobs[j].progress = ProgressCompleted
        /\ jobs[k].status = PROCESSING
        /\ jobs[k].progress = ProgressCombinedSequential

\* C5: the only status changes are Pending->Processing,
\* Processing->Completed and Processing->Failed.
C5_StatusTransitions ==
    [][\A j \in DOMAIN jobs :
          jobs'[j].status # jobs[j].status =>
              <<jobs[j].status, jobs'[j].status>> \in
                  {<<PENDING, PROCESSING>>, <<PROCESSING, COMPLETED>>,
                   <<PROCESSING, FAILED>>}]_vars

C5_Witness ==
    \E j \in JobIds : \E k \in JobIds :
        /\ jobs[j].status = FAILED /\ jobs[j].progress = ProgressStarted
        /\ jobs[k].status = COMPLETED

\* C6: a terminal write (the final commit or the handler's commit) for a
\* job that is not in Processing changes nothing in the store.
C6_FinalizeGuarded ==
    [][\A w \in workers :
          (pc[w] \in {"complete", "handler"} /\ pc'[w] = "poll"
              /\ jobs[cur[w]].status # PROCESSING)
          => jobs' = jobs]_vars

\* C7: the job the poll selects is Pending and no Pending job has a smaller
\* created_at; no job is moved to Processing while an older job is Pending.
C7_Fifo ==
    [][\A w \in workers :
          /\ (pc[w] = "poll" /\ pc'[w] = "start") =>
                /\ jobs[cur'[w]].status = PENDING
                /\ \A k \in DOMAIN jobs :
                      jobs[k].status = PENDING =>
                          jobs[cur'[w]].created_at <= jobs[k].created_at
          /\ (pc[w] = "start" /\ pc'[w] = "validate") =>
                \A k \in DOMAIN jobs :
                    jobs[k].status = PENDING =>
                        ~(jobs[k].created_at < jobs[cur[w]].created_at)]_vars

C7_Witness ==
    \E w \in workers : \E k \in JobIds :
        /\ pc[w] = "validate"
        /\ jobs[cur[w]].status = PROCESSING
        /\ jobs[k].status = PENDING
        /\ jobs[k].created_at > jobs[cur[w]].created_at

\* C8: in sequential mode, a job whose X-Nemo stage failed never has a
\* Seed-VC invocation, and is Failed once the dispatcher has left it.
C8_SequentialSkipsSeedvc ==
    mode = Sequential =>
        \A j \in JobIds :
            XnemoFailed(j) =>
                /\ stages[j].seedvc.calls = 0
                /\ Released(j) => jobs[j].status = FAILED

C8_Witness ==
    /\ mode = Sequential
    /\ \E j \in JobIds :
          /\ XnemoFailed(j)
          /\ Released(j)
          /\ jobs[j].status = FAILED
          /\ stages[j].seedvc.calls = 0

\* C9: in parallel mode, a job with a failed stage is Failed once the
\* dispatcher has left it, and its error text contains the reason of every
\* stage that failed.
C9_ParallelErrorsAggregated ==
    mode = Parallel =>
        \A j \in JobIds :
            (Released(j) /\ (XnemoFailed(j) \/ SeedvcFailed(j))) =>
                /\ jobs[j].status = FAILED
                /\ jobs[j].error # None
                /\ XnemoFailed(j) =>
                      Contains(jobs[j].error[1], stages[j].xnemo.state)
                /\ stages[j].seedvc.state \in SeedvcMessages =>
                      Contains(jobs[j].error[1], stages[j].seedvc.state)
                /\ stages[j].extract.state = ExtractFailed =>
                      Contains(jobs[j].error[1], ExtractFailed)

C9_Witness ==
    /\ mode = Parallel
    /\ \E j \in JobIds :
          /\ Released(j)
          /\ XnemoFailed(j)
          /\ stages[j].seedvc.state \in SeedvcMessages
          /\ jobs[j].status = FAILED
          /\ jobs[j].error[1][1] = "seedvc"
          /\ Contains(jobs[j].error[1], stages[j].xnemo.state)

\* C10: in parallel mode, two jobs whose two stages failed for the same
\* reasons carry the identical error text, whichever stage finished first.
C10_ErrorOrderFixed ==
    mode = Parallel =>
        \A j \in JobIds : \A k \in JobIds :
            ( /\ Released(j) /\ Released(k)
              /\ jobs[j].status = FAILED /\ jobs[k].status = FAILED
              /\ XnemoFailed(j) /\ stages[j].seedvc.state \in SeedvcMessages
              /\ stages[j].xnemo.state = stages[k].xnemo.state
              /\ stages[j].seedvc.state = stages[k].seedvc.state
              /\ stages[j].extract.state = stages[k].extract.state )
            => jobs[j].error = jobs[k].error

\* C11: in parallel mode the outcome is decided, and the combine step
\* starts, only after both tasks have finished: no task is skipped or left
\* running when the handler or the combine step is reached, and the combine
\* step runs only on two results.
C11_BothTasksFinishFirst ==
    mode = Parallel =>
        \A w \in workers :
            pc[w] \in {"handler", "par_combine", "complete"}
                /\ stages[cur[w]].xnemo.calls > 0 =>
                    /\ stages[cur[w]].xnemo.state # "running"
                    /\ stages[cur[w]].extract.calls > 0
                    /\ stages[cur[w]].seedvc.state # "running"
                    /\ pc[w] \in {"par_combine", "complete"} =>
                          /\ stages[cur[w]].xnemo.state = "ok"
                          /\ stages[cur[w]].seedvc.state = "ok"

C11_Witness ==
    /\ mode = Parallel
    /\ \E w \in workers :
          /\ pc[w] = "handler"
          /\ XnemoFailed(cur[w])
          /\ stages[cur[w]].seedvc.state = "ok"
          /\ errors[w][1][1] = "xnemo"
          /\ jobs[cur[w]].progress = ProgressSeedvcDoneParallel

\* C12: the polling loop never ends because of one job: whatever fails while
\* a job is processed (a stage, the combine step, a missing input, a store
\* operation, the failure handler itself), the dispatcher leaves the failure
\* handler back into the loop, holding no job, where it polls again.
C12_LoopNeverEnds ==
    /\ [](\A w \in workers : pc[w] # "exited")
    /\ [][\A w \in workers :
            pc[w] = "handler" /\ pc'[w] # "handler" =>
                pc'[w] \in {"poll", "sleep"} /\ cur'[w] = 0]_vars

\* the failure handler itself failed, the job is stuck in Processing, and
\* the dispatcher is polling again
C12_Witness ==
    /\ store_faults
    /\ \E w \in workers : \E j \in JobIds :
          /\ jobs[j].status = PROCESSING
          /\ Released(j)
          /\ pc[w] = "poll"

\* C13: a store operation that fails while a job is processed is treated as
\* transient: no job is marked Failed on account of the store error.
C13_StoreErrorNotFailed ==
    \A j \in JobIds :
        jobs[j].status = FAILED => ~Contains(jobs[j].error[1], StoreError)

\* C14: every job that is claimed eventually reaches Completed or Failed,
\* whatever the external processes do: no invocation made for it keeps the
\* dispatcher waiting forever.
C14_ClaimedJobsTerminate ==
    \A j \in 1..MaxJobsFair :
        (j \in JobIds /\ jobs[j].status = PROCESSING)
            ~> (j \in JobIds /\ jobs[j].status \in {COMPLETED, FAILED})

\* every external invocation made for job j has returned successfully
AllSucceeded(j) ==
    \A n \in StageNames : stages[j][n].state = "ok"

\* validate_paths, a stage, the extraction or the combine step failed for j
SomethingFailed(j) ==
    \/ jobs[j].error[1][1] \in ValidationMessages
    \/ XnemoFailed(j)
    \/ SeedvcFailed(j)
    \/ stages[j].combine.state = CombineFailed

\* C15: a job enqueued with valid inputs is created Pending, with progress
\* 0, no output and no error; it is marked Failed only if an input is
\* missing or a stage, the extraction or the combine step fails; and once
\* both stages and the combine step have succeeded it eventually is
\* Completed, with progress 100 and an output reference (in both modes).
C15_ValidJobCompletes ==
    /\ [][\A j \in 1..MaxJobsFair :
            j \notin JobIds /\ j \in JobIds' =>
                /\ jobs'[j].status = PENDING
                /\ jobs'[j].progress = 0
                /\ jobs'[j].output_video = None
                /\ jobs'[j].error = None]_vars
    /\ [](\A j \in JobIds : jobs[j].status = FAILED => SomethingFailed(j))
    /\ \A j \in 1..MaxJobsFair :
          (j \in JobIds /\ AllSucceeded(j)) ~>
              ( /\ j \in JobIds
                /\ jobs[j].status = COMPLETED
                /\ jobs[j].progress = 100
                /\ jobs[j].output_video # None )

C15_Witness ==
    /\ mode = Parallel
    /\ \E j \in JobIds :
          /\ AllSucceeded(j)
          /\ jobs[j].status = COMPLETED
          /\ jobs[j].progress = 100
          /\ jobs[j].output_video = Some(OutputVideoName(j))

\* C16: a request with an unknown identity, an image that is not among the
\* identity's images, or a video that was not uploaded creates no job row:
\* every row in the store names a known identity, one of its images and an
\* uploaded video, and a rejected request leaves the store as it was.
C16_InvalidEnqueueRejected ==
    /\ [](\A j \in JobIds :
            /\ jobs[j].identity_id \in DOMAIN IDENTITIES
            /\ jobs[j].identity_image \in IDENTITIES[jobs[j].identity_id].images
            /\ jobs[j].user_video \in uploads)
    /\ [][response'.status_code = 400 /\ response' # response =>
            jobs' = jobs]_vars

\* C17: in sequential mode, when the X-Nemo invocation exceeds its timeout,
\* Seed-VC (and its audio extraction) is never invoked, the failure handler
\* receives the timeout message, and the job ends Failed with an error text
\* that carries the timeout message and not the non-zero-exit message.
C17_SequentialTimeoutFails ==
    mode = Sequential =>
        \A j \in JobIds :
            stages[j].xnemo.timed_out =>
                /\ stages[j].seedvc.calls = 0
                /\ stages[j].extract.calls = 0
                /\ \A w \in workers :
                      cur[w] = j =>
                          pc[w] = "handler" /\ exc[w] = Some(<<XnemoTimedOut>>)
                /\ Released(j) =>
                      /\ jobs[j].status = FAILED
                      /\ Contains(jobs[j].error[1], XnemoTimedOut)
                      /\ ~Contains(jobs[j].error[1], XnemoFailedCode)

C17_Witness ==
    /\ mode = Sequential
    /\ \E j \in JobIds :
          /\ stages[j].xnemo.timed_out
          /\ Released(j)
          /\ jobs[j].status = FAILED

\* C18: in parallel mode, when X-Nemo succeeds and Seed-VC fails, the job
\* ends Failed, and the progress checkpoint of X-Nemo's success (50) is in
\* the store before the Failed write: it is there while the failure handler
\* is pending, and in the state the Failed write is made from.
C18_CheckpointBeforeFailed ==
    /\ [](mode = Parallel =>
            \A j \in JobIds :
                (stages[j].xnemo.state = "ok" /\ SeedvcFailed(j)) =>
                    /\ jobs[j].progress = ProgressXnemoDone
                    /\ \A w \in workers :
                          (cur[w] = j /\ pc[w] = "handler") =>
                              jobs[j].status = PROCESSING
                    /\ Released(j) => jobs[j].status = FAILED)
    /\ [][mode = Parallel =>
            \A j \in JobIds :
                ( /\ jobs[j].status # FAILED /\ jobs'[j].status = FAILED
                  /\ stages[j].xnemo.state = "ok" /\ SeedvcFailed(j) ) =>
                    /\ jobs[j].progress = ProgressXnemoDone
                    /\ jobs'[j].progress = ProgressXnemoDone]_vars

\* X-Nemo finished first and wrote 50, then Seed-VC failed, and the job is
\* Failed
C18_Witness ==
    /\ mode = Parallel
    /\ \E j \in JobIds :
          /\ Released(j)
          /\ jobs[j].status = FAILED
          /\ jobs[j].progress = ProgressXnemoDone
          /\ stages[j].xnemo.state = "ok"
          /\ stages[j].seedvc.state \in SeedvcMessages
          /\ jobs[j].error[1][1] = "seedvc"

\* C19: a Failed job is terminal and never retried: once a job is Failed
\* its row never changes again, no dispatcher selects it, and no stage,
\* extraction or combine invocation is made for it.
C19_FailedNeverRetried ==
    [][\A j \in JobIds :
          jobs[j].status = FAILED =>
              /\ jobs'[j] = jobs[j]
              /\ stages'[j] = stages[j]
              /\ \A w \in workers : cur[w] # j /\ cur'[w] # j]_vars

\* a job failed after its X-Nemo invocation, and the dispatcher has since
\* completed another job without invoking anything for the failed one
C19_Witness ==
    \E j \in JobIds : \E k \in JobIds :
        /\ jobs[j].status = FAILED
        /\ stages[j].xnemo.calls = 1
        /\ jobs[k].status = COMPLETED
        /\ jobs[j].created_at <= jobs[k].created_at

\* C20: startup is fail-fast: a dispatcher is in its polling loop only if
\* the X-Nemo runner script and the Seed-VC runner script both exist; if
\* either is missing the dispatcher never gets past startup, selects no
\* job, and every job is still as it was created, with nothing invoked for
\* it.
C20_StartupFailFast ==
    \A w \in workers :
        /\ pc[w] \notin {"startup", "setup_failed"} =>
              setup.xnemo_script /\ setup.seedvc_script
        /\ ~(setup.xnemo_script /\ setup.seedvc_script) =>
              /\ pc[w] \in {"startup", "setup_failed"}
              /\ cur[w] = 0
              /\ \A j \in JobIds :
                    /\ jobs[j].status = PENDING
                    /\ jobs[j].progress = ProgressCreated
                    /\ jobs[j].output_video = None
                    /\ jobs[j].error = None
                    /\ \A n \in StageNames : stages[j][n].calls = 0

\* only the Seed-VC runner script is missing, the process has exited, and a
\* job is waiting
C20_Witness ==
    /\ setup.xnemo_script /\ setup.xnemo_weights /\ ~setup.seedvc_script
    /\ \E w \in workers : pc[w] = "setup_failed"
    /\ \E j \in JobIds : jobs[j].status = PENDING

\* C21: for a stage process that exits with code 0 within its timeout, the
\* result marker, when present, decides the outcome (a marker reporting
\* failure gives a failed stage even if the output file exists); without a
\* marker the stage succeeds exactly when the output path exists, and fails
\* with the output-missing reason otherwise.
C21_ResultParsingPolicy ==
    (outcome # None /\ ~call.run.timed_out /\ call.run.returncode = 0) =>
        /\ call.run.marker = "success" => outcome[1].ok
        /\ call.run.marker = "failure" => ~outcome[1].ok
        /\ call.run.marker = "absent" =>
              /\ outcome[1].ok <=> call.run.output_exists
              /\ ~call.run.output_exists =>
                    outcome[1].value \in {XnemoNotFound, SeedvcNotFound}

\* the error texts of the stage failures
StageFailureTexts == XnemoMessages \cup SeedvcMessages \cup {ExtractFailed}

\* C22: when both stages succeed and the combine step fails, the job ends
\* Failed with no output, and its error text names the combine step and
\* holds none of the stage failure texts.
C22_CombineFailureDistinct ==
    \A j \in JobIds :
        ( /\ Released(j)
          /\ stages[j].xnemo.state = "ok" /\ stages[j].seedvc.state = "ok"
          /\ stages[j].combine.calls > 0
          /\ stages[j].combine.state \notin {"ok", "running"} ) =>
            /\ jobs[j].status = FAILED
            /\ jobs[j].output_video = None
            /\ jobs[j].error # None
            /\ Contains(jobs[j].error[1], CombineFailed)
            /\ \A t \in StageFailureTexts : ~Contains(jobs[j].error[1], t)

C22_Witness ==
    \E j \in JobIds :
        /\ Released(j)
        /\ stages[j].xnemo.state = "ok" /\ stages[j].seedvc.state = "ok"
        /\ stages[j].combine.state = CombineFailed
        /\ jobs[j].status = FAILED
        /\ jobs[j].error = Some(<<CombineFailed>>)

\* C23: no step ever changes a job's id, user_video, identity_id,
\* identity_image or created_at, and no step deletes a job row.
C23_InputsImmutable ==
    [][\A j \in JobIds :
          /\ j \in JobIds'
          /\ jobs'[j].user_video = jobs[j].user_video
          /\ jobs'[j].identity_id = jobs[j].identity_id
          /\ jobs'[j].identity_image = jobs[j].identity_image
          /\ jobs'[j].created_at = jobs[j].created_at]_vars

\* a job created from a request with a video path of its own went through
\* the whole pipeline
C23_Witness ==
    \E j \in JobIds :
        /\ jobs[j].status = COMPLETED
        /\ jobs[j].user_video = HostFile
        /\ jobs[j].identity_id = "persona_a"
        /\ jobs[j].identity_image = "face1.jpg"

\* C24: update_progress on a job id that is not in the store is a silent
\* no-op: it returns without an error, creates no row and changes no row.
C24_UpdateProgressMissingIsNoOp ==
    [][(outcome = None /\ outcome' # None /\ call.job_id \notin JobIds) =>
          /\ outcome'[1].ok
          /\ jobs' = jobs]_vars

\* update_progress has returned, its job id is not in the store, and other
\* rows are
C24_Witness ==
    /\ outcome # None
    /\ call \in ProgressCalls
    /\ call.job_id \notin JobIds
    /\ JobIds # {}

\* C25: with a single dispatcher at most one job has status Processing in
\* any reachable state: the selected job gets its terminal write before the
\* next job is selected.
C25_OneJobInFlight ==
    workers = SingleDispatcher =>
        Cardinality({j \in JobIds : jobs[j].status = PROCESSING}) <= 1

\* the stage invocations (X-Nemo, Seed-VC) that are running
RunningStages ==
    {i \in JobIds \X {"xnemo", "seedvc"} : stages[i[1]][i[2]].state = "running"}

\* C26: the stage invocations running at the same time are bounded by the
\* execution mode: at most one in sequential mode; at most two in parallel
\* mode, and then they belong to the same job, one X-Nemo and one Seed-VC.
C26_RunningStagesBounded ==
    /\ mode = Sequential => Cardinality(RunningStages) <= 1
    /\ mode = Parallel =>
          /\ Cardinality(RunningStages) <= 2
          /\ \A a \in RunningStages : \A b \in RunningStages :
                a[1] = b[1] /\ (a # b => a[2] # b[2])

\* both stages of one job are running at once
C26_Witness ==
    /\ mode = Parallel
    /\ \E j \in JobIds :
          RunningStages = {<<j, "xnemo">>, <<j, "seedvc">>}

\* C27: no stage is retried: over the whole life of a job, in both modes
\* and whatever the outcome, X-Nemo is invoked at most once and Seed-VC is
\* invoked at most once.
C27_StagesInvokedAtMostOnce ==
    \A j \in JobIds :
        stages[j].xnemo.calls <= 1 /\ stages[j].seedvc.calls <= 1

\* a job whose X-Nemo run failed is Failed after one invocation, and the
\* dispatcher has gone on to the next job
C27_Witness ==
    \E j \in JobIds : \E k \in JobIds :
        /\ jobs[j].status = FAILED
        /\ XnemoFailed(j)
        /\ stages[j].xnemo.calls = 1
        /\ k # j
        /\ stages[k].seedvc.state \in SeedvcMessages
        /\ stages[k].seedvc.calls = 1
        /\ jobs[k].status = FAILED

\* C28: the progress checkpoints follow the pipeline in both modes: 5 is
\* written when the job starts, 50 when X-Nemo is done, 85 when Seed-VC is
\* done, 95 when the combine step is done and 100 at the final commit; and
\* a stored 50 implies X-Nemo succeeded, 85 that Seed-VC succeeded, 95 that
\* the combine step succeeded.
C28_CheckpointsMatch ==
    /\ [](\A j \in JobIds :
            /\ jobs[j].progress = 50 => stages[j].xnemo.state = "ok"
            /\ jobs[j].progress = 85 => stages[j].seedvc.state = "ok"
            /\ jobs[j].progress = 95 => stages[j].combine.state = "ok")
    /\ [][\A j \in JobIds :
            /\ (jobs[j].status = PENDING /\ jobs'[j].status = PROCESSING) =>
                  jobs'[j].progress = 5
            /\ (stages[j].xnemo.state # "ok" /\ stages'[j].xnemo.state = "ok") =>
                  jobs'[j].progress = 50
            /\ (stages[j].seedvc.state # "ok" /\ stages'[j].seedvc.state = "ok") =>
                  jobs'[j].progress = 85
            /\ (stages[j].combine.state # "ok" /\ stages'[j].combine.state = "ok") =>
                  jobs'[j].progress = 95
            /\ (jobs[j].status # COMPLETED /\ jobs'[j].status = COMPLETED) =>
                  jobs'[j].progress = 100]_vars

\* dispatcher w goes to sleep in this step
GoesToSleep(w) == pc[w] # "sleep" /\ pc'[w] = "sleep"

\* process_job returns to main in this step
ProcessJobReturns(w) ==
    pc[w] \in {"complete", "handler"} /\ cur'[w] = 0 /\ exc'[w] = None

NothingInvoked(j) == \A n \in StageNames : stages[j][n].calls = 0

\* the exception dispatcher w holds was raised by validate_paths
ValidationFailed(w) ==
    exc[w] # None /\ exc[w][1][1] \in ValidationMessages

\* C30: the inputs are checked before any stage runs; when the user video,
\* the identity image or the identity audio is missing, or the identity is
\* no longer in the catalog, the job ends Failed with the error text, no
\* stage, extraction or combine step is invoked for it, and the dispatcher
\* goes on polling.
C30_ValidationBeforeStages ==
    /\ [](\A w \in workers :
            /\ pc[w] # "exited"
            /\ (cur[w] \in JobIds /\ pc[w] \in {"start", "validate"}) =>
                    NothingInvoked(cur[w])
            /\ (cur[w] \in JobIds /\ ValidationFailed(w)) =>
                    NothingInvoked(cur[w]))
    /\ [](\A j \in JobIds :
            ( /\ Released(j)
              /\ jobs[j].error # None
              /\ jobs[j].error[1][1] \in ValidationMessages ) =>
                /\ jobs[j].status = FAILED
                /\ jobs[j].output_video = None
                /\ NothingInvoked(j))
    /\ [][\A w \in workers :
            /\ (pc[w] = "validate" /\ pc'[w] # "validate") =>
                  \/ pc'[w] = "handler" /\ ValidationFailed(w)'
                  \/ pc'[w] # "handler" /\ exc'[w] = None
            /\ (pc[w] = "handler" /\ pc'[w] # "handler" /\ ValidationFailed(w)) =>
                  /\ jobs'[cur[w]].status = FAILED
                  /\ jobs'[cur[w]].error = exc[w]
                  /\ pc'[w] = "poll"]_vars

\* a job whose identity is no longer in the catalog has ended Failed with
\* the error text, nothing was invoked for it, and the dispatcher polls
C30_Witness ==
    \E j \in JobIds : \E w \in workers :
        /\ Released(j)
        /\ jobs[j].status = FAILED
        /\ jobs[j].error = Some(<<PathIsNone>>)
        /\ NothingInvoked(j)
        /\ pc[w] = "poll"

\* the files under shared_data/temp
TempFiles ==
    {XnemoOutputPath(j) : j \in {k \in JobIds : stages[k].xnemo.written}}
    \cup {UserAudioPath(j) : j \in {k \in JobIds : stages[k].extract.written}}
    \cup {SeedvcOutputPath(j) : j \in {k \in JobIds : stages[k].seedvc.written}}

\* C31: the temporary artifacts written for a job (the Stage A video, the
\* extracted audio, the Stage B audio) are kept: no step of the pipeline
\* removes one, when the job completes or when it fails, and the path a
\* stage hands on is the one derived from the job's id.
C31_ArtifactsRetained ==
    /\ [][TempFiles \subseteq TempFiles']_vars
    /\ [](\A w \in workers :
            /\ xnemo_result[w] # None =>
                  xnemo_result[w] = Some(XnemoOutputPath(cur[w]))
            /\ seedvc_result[w] # None =>
                  seedvc_result[w] = Some(SeedvcOutputPath(cur[w])))

\* one job has completed and another has failed, both have left the
\* dispatcher, and the artifacts written for them are still there
C31_Witness ==
    \E j, k \in JobIds :
        /\ Released(j) /\ jobs[j].status = COMPLETED
        /\ {XnemoOutputPath(j), UserAudioPath(j), SeedvcOutputPath(j)}
              \subseteq TempFiles
        /\ Released(k) /\ jobs[k].status = FAILED
        /\ XnemoOutputPath(k) \in TempFiles

\* the message of a stage whose process exited with a code other than 0
FailedCode(name) == IF name = "xnemo" THEN XnemoFailedCode ELSE SeedvcFailedCode

\* C32: a stage process that exits with a code other than 0 makes the stage
\* fail whatever it printed or wrote (a result marker reporting success, an
\* output file in place): the runner raises the non-zero-exit error and the
\* job ends Failed with that error and no output.
C32_NonZeroExitFails ==
    \A j \in JobIds : \A n \in {"xnemo", "seedvc"} :
        stages[j][n].exit_nonzero =>
            /\ stages[j][n].state = FailedCode(n)
            /\ ~stages[j][n].written
            /\ stages[j].combine.calls = 0
            /\ Released(j) =>
                  /\ jobs[j].status = FAILED
                  /\ jobs[j].output_video = None
                  /\ Contains(jobs[j].error[1], FailedCode(n))

\* each stage has exited with a non-zero code for some job, and the job has
\* ended Failed
C32_Witness ==
    /\ \E j \in JobIds :
          /\ stages[j].xnemo.exit_nonzero
          /\ Released(j) /\ jobs[j].status = FAILED
    /\ \E j \in JobIds :
          /\ stages[j].seedvc.exit_nonzero
          /\ Released(j) /\ jobs[j].status = FAILED

\* C33: the audio extraction of a job comes before its Seed-VC invocation
\* and gates it: Seed-VC is invoked only after the extraction has succeeded,
\* a failed extraction leaves Seed-VC uninvoked and the job ends Failed; in
\* sequential mode the extraction starts only after X-Nemo has succeeded.
C33_ExtractionGatesSeedvc ==
    /\ [](\A j \in JobIds :
            /\ stages[j].seedvc.calls > 0 =>
                  /\ stages[j].extract.state = "ok"
                  /\ ~stages[j].extract.exit_nonzero
            /\ stages[j].extract.exit_nonzero =>
                  /\ stages[j].extract.state = ExtractFailed
                  /\ stages[j].seedvc.calls = 0
                  /\ stages[j].combine.calls = 0
                  /\ Released(j) =>
                        /\ jobs[j].status = FAILED
                        /\ Contains(jobs[j].error[1], ExtractFailed)
            /\ (mode = Sequential /\ stages[j].extract.calls > 0) =>
                  stages[j].xnemo.state = "ok")
    /\ [][\A j \in JobIds :
            stages'[j].seedvc.calls > stages[j].seedvc.calls =>
                /\ stages'[j].extract.calls > 0
                /\ stages'[j].extract.state = "ok"]_vars

\* in each mode a job's extraction has failed and the job has ended Failed
\* with Seed-VC never invoked; in sequential mode X-Nemo had succeeded
C33_Witness ==
    \E j \in JobIds :
        /\ stages[j].extract.exit_nonzero
        /\ stages[j].xnemo.state = "ok"
        /\ stages[j].seedvc.calls = 0
        /\ Released(j) /\ jobs[j].status = FAILED
        /\ mode = Sequential

\* the combine step is invoked for job j in this step
CombineInvoked(j) == stages'[j].combine.calls > stages[j].combine.calls

\* C34: the combine step is invoked at most once for a job, and only when
\* both stages have handed back a result for it: never with the video or
\* the audio artifact missing, never for a job with a recorded stage failure.
C34_CombineOnlyAfterBothStages ==
    /\ [](\A j \in JobIds :
            /\ stages[j].combine.calls <= 1
            /\ stages[j].combine.calls > 0 =>
                  /\ stages[j].xnemo.state = "ok"
                  /\ stages[j].extract.state = "ok"
                  /\ stages[j].seedvc.state = "ok")
    /\ [][\A j \in JobIds :
            CombineInvoked(j) =>
                \E w \in workers :
                    /\ cur[w] = j
                    /\ xnemo_result[w] = Some(XnemoOutputPath(j))
                    /\ seedvc_result[w] = Some(SeedvcOutputPath(j))
                    /\ errors[w] = <<>>
                    /\ exc[w] = None]_vars

\* in parallel mode the combine step has run once for a job that completed
C34_Witness ==
    /\ mode = Parallel
    /\ \E j \in JobIds :
          /\ stages[j].combine.calls = 1
          /\ Released(j) /\ jobs[j].status = COMPLETED

\* C35: the dispatcher selects only jobs whose status is Pending; a job
\* that is in Processing with no dispatcher working on it (left behind by a
\* dispatcher that stopped mid-job) is never selected, never processed and
\* never finalized: its row stays as it is.
C35_ProcessingNeverSelected ==
    /\ [][\A w \in workers :
            (cur'[w] # cur[w] /\ cur'[w] # 0) =>
                jobs[cur'[w]].status = PENDING]_vars
    /\ [][\A j \in JobIds :
            (jobs[j].status = PROCESSING /\ Released(j)) =>
                /\ jobs'[j] = jobs[j]
                /\ stages'[j] = stages[j]
                /\ \A w \in workers : cur'[w] # j]_vars

\* the job left in Processing is still there, untouched, after the
\* dispatcher has completed a younger job and found nothing more to do
C35_Witness ==
    \E j, k \in JobIds : \E w \in workers :
        /\ jobs[j] \in OrphanRows /\ Released(j)
        /\ NothingInvoked(j)
        /\ jobs[k].status = COMPLETED
        /\ jobs[j].created_at <= jobs[k].created_at
        /\ pc[w] = "sleep"

\* job k is not behind job j in creation order
Ahead(k, j) ==
    k \in JobIds /\ j \in JobIds /\ k # j
        /\ jobs[k].created_at <= jobs[j].created_at

\* job j is in the store with this status
HasStatus(j, status) == j \in JobIds /\ jobs[j].status = status

\* C36: with one dispatcher that got through its setup check and keeps
\* being scheduled, and a store that serves every operation, every enqueued
\* job is eventually selected and moved to Processing, provided every job
\* ahead of it in creation order that is being processed reaches a terminal
\* state.
C36_NoPendingJobStarved ==
    \A j \in 1..MaxJobsFairBacklog :
        ( /\ [](VerifySetup(setup))
          /\ \A k \in 1..MaxJobsFairBacklog :
                (Ahead(k, j) /\ jobs[k].status = PROCESSING)
                    ~> (HasStatus(k, COMPLETED) \/ HasStatus(k, FAILED)) )
        => (HasStatus(j, PENDING) ~> HasStatus(j, PROCESSING))

\* a job is Pending behind an older one that is being processed, and the
\* dispatcher then takes it up
C36_Witness ==
    \E j, k \in JobIds : \E w \in workers :
        /\ Ahead(k, j)
        /\ jobs[k].status \in {COMPLETED, FAILED}
        /\ jobs[j].status = PROCESSING
        /\ cur[w] = j

====
